---- MODULE Spec2Model ----
(***************************************************************************)
(* Product lifecycle orchestrator of the editorial catalog:                *)
(* ProductService.createWithRole / updateWithAudit / approvePending over   *)
(* BaseService (Mongo store), ProductChangeService (audit log), the        *)
(* RabbitMQ publisher and the Elasticsearch indexer.                       *)
(*                                                                         *)
(* A JavaScript object is modelled as a sequence of <<key, value>> pairs   *)
(* in insertion order (the order JSON.stringify emits); a stored Mongo     *)
(* document is a function from its present field names to values.          *)
(* Every action is one await segment of a handler: the store operation it  *)
(* was waiting for takes effect, then the synchronous code up to the next  *)
(* await runs.  The pure functions (computeAuditDiff, the GTIN utilities)  *)
(* are evaluated in `eval`, one call with its arguments and its result.    *)
(***************************************************************************)
EXTENDS Integers, Sequences, FiniteSets, TLC

VARIABLES products, productChanges, events, upserts, bus, index, req, now, ops, writes,
          eval, refreshTokens, auth, rabbit, boot

vars == <<products, productChanges, events, upserts, bus, index, req, now, ops, writes,
          eval, refreshTokens, auth, rabbit, boot>>

(* the RefreshToken collection and the refreshToken calls *)
authVars == <<refreshTokens, auth>>

(* the module state of rabbitmq.js and the start-up sequence that uses it *)
rabbitVars == <<rabbit, boot>>

(* ------------------------------ bounds -------------------------------- *)
MaxOps == 2
MaxProducts == 2

Reqs == {1, 2}
Ids == 1..MaxProducts

(* --------------------------- program constants ------------------------ *)
RoleTypeEnum == [ADMIN |-> "admin", MANAGER |-> "manager", EMPLOYEE |-> "employee",
                 PROVIDER |-> "provider", EDITOR |-> "editor"]

ProductStatus == [PENDING_REVIEW |-> "PENDING_REVIEW", PUBLISHED |-> "PUBLISHED"]

OperationType == [CREATE |-> "CREATE", UPDATE |-> "UPDATE", STATUS_CHANGE |-> "STATUS_CHANGE"]

BUSINESS_FIELDS == <<"gtin", "name", "description", "brand", "manufacturer",
                     "netWeight", "weightUnit", "status">>

(* String.prototype.toLowerCase on the role strings that occur *)
toLowerCase_None(s) == s

toLowerCase(s) ==
  CASE s = "EDITOR" -> "editor"
    [] s = "Editor" -> "editor"
    [] s = "PROVIDER" -> "provider"
    [] s = "Provider" -> "provider"
    [] s = "ADMIN" -> "admin"
    [] s = "MANAGER" -> "manager"
    [] s = "Employee" -> "employee"
    [] OTHER -> s

(* ------------------------- JavaScript objects ------------------------- *)
HasKey(o, k) == \E i \in 1..Len(o) : o[i][1] = k

Get(o, k) == o[CHOOSE i \in 1..Len(o) : o[i][1] = k][2]

Put(o, k, v) ==
  IF HasKey(o, k)
  THEN [i \in 1..Len(o) |-> IF o[i][1] = k THEN <<k, v>> ELSE o[i]]
  ELSE Append(o, <<k, v>>)

Keys(o) == {o[i][1] : i \in 1..Len(o)}

(* JSON.stringify of a property value: undefined for a missing property,   *)
(* otherwise the text, which for a nested object lists the properties in   *)
(* insertion order.                                                        *)
JSONstringify(o, k) == IF HasKey(o, k) THEN <<Get(o, k)>> ELSE <<>>

(* Content of a nested object regardless of property order *)
AsMap(o) == [k \in Keys(o) |-> Get(o, k)]

(* ------------------------------ diff.util ------------------------------ *)
(* pick(obj, keys): the own properties of obj among keys, in keys order *)
RECURSIVE pickFrom(_, _, _)
pickFrom(obj, keys, i) ==
  IF i > Len(keys) THEN <<>>
  ELSE (IF keys[i] \in DOMAIN obj THEN << <<keys[i], obj[keys[i]]>> >> ELSE <<>>)
       \o pickFrom(obj, keys, i + 1)

pick(obj, keys) == pickFrom(obj, keys, 1)

(* the for-loop of computeAuditDiff over BUSINESS_FIELDS *)
RECURSIVE diffLoop(_, _, _, _, _)
diffLoop(prevSnapshot, updates, i, nextSnapshot, touched) ==
  IF i > Len(BUSINESS_FIELDS) THEN [next |-> nextSnapshot, touched |-> touched]
  ELSE LET key == BUSINESS_FIELDS[i] IN
       IF HasKey(updates, key)
       THEN diffLoop(prevSnapshot, updates, i + 1,
                     Put(nextSnapshot, key, Get(updates, key)),
                     touched \/ JSONstringify(prevSnapshot, key) # JSONstringify(updates, key))
       ELSE diffLoop(prevSnapshot, updates, i + 1, nextSnapshot, touched)

computeAuditDiff(currentDoc, updates) ==
  LET prevSnapshot == pick(currentDoc, BUSINESS_FIELDS)
      loop == diffLoop(prevSnapshot, updates, 1, prevSnapshot, FALSE)
  IN IF ~loop.touched
     THEN [previous |-> <<>>, next |-> <<>>]
     ELSE [previous |-> prevSnapshot, next |-> loop.next]

(* updateWithAudit: hasChanges, comparing the JSON text of both snapshots *)
hasChanges(previous, next) == Len(next) > 0 /\ previous # next

(* ----------------------------- BaseService ----------------------------- *)
NoResult == [status |-> 0, data |-> <<>>, error |-> ""]

Ok(status, doc) == [status |-> status, data |-> <<doc>>, error |-> ""]

Err(status, error) == [status |-> status, data |-> <<>>, error |-> error]

(* handleError: what the catch blocks return for the failures that occur *)
handleError(kind) ==
  CASE kind = "validation" -> Err(400, "Validation Error")
    [] kind = "duplicate" -> Err(400, "Duplicate Key Error")
    [] OTHER -> Err(500, "Database Error")

handleDocumentNotFound == Err(404, "Document not found")

(* the filter { _id: id, deletedAt: null } *)
Active(store, id) == id \in 1..Len(store) /\ store[id].deletedAt = 0

(* findById: outcome of the read when the store answers (fail = it throws) *)
findById(store, id, fail) ==
  IF fail THEN handleError("store")
  ELSE IF ~Active(store, id) THEN handleDocumentNotFound
  ELSE Ok(200, store[id])

(* unique index on gtin (soft-deleted documents stay in the index) *)
GtinTaken(store, gtin, self) ==
  \E j \in 1..Len(store) : j # self /\ store[j].gtin = gtin

(* the update replaces the document: paths absent from updateData fall     *)
(* back to their schema default, status to PENDING_REVIEW                  *)
ApplyUpdate_Replace(doc, updateData, t) ==
  [k \in DOMAIN doc \cup Keys(updateData) \cup {"updatedAt"} |->
     IF k = "updatedAt" THEN t
     ELSE IF HasKey(updateData, k) THEN Get(updateData, k)
     ELSE IF k = "status" THEN ProductStatus.PENDING_REVIEW
     ELSE doc[k]]

(* the document findOneAndUpdate leaves: { ...updateData, updatedAt } *)
ApplyUpdate(doc, updateData, t) ==
  [k \in DOMAIN doc \cup Keys(updateData) \cup {"updatedAt"} |->
     IF k = "updatedAt" THEN t
     ELSE IF HasKey(updateData, k) THEN Get(updateData, k)
     ELSE doc[k]]

(* the document new Model(data).save() inserts *)
NewDoc(data, t) ==
  [k \in Keys(data) \cup {"createdAt", "updatedAt", "deletedAt"} |->
     IF k \in {"createdAt", "updatedAt"} THEN t
     ELSE IF k = "deletedAt" THEN 0
     ELSE Get(data, k)]

(* required paths of productSchema *)
RequiredPaths == {"gtin", "name", "brand", "manufacturer", "status", "createdBy"}

(* Date: time is observed through the store only; it has advanced by the   *)
(* time a write to the store has committed                                 *)
Tick(n, committed) == IF committed THEN n + 1 ELSE n

(* the filter { _id: id } alone *)
updateById_NoDeletedFilter(store, id, updateData, t, fail) ==
  IF fail THEN [res |-> handleError("store"), store |-> store]
  ELSE IF id \notin 1..Len(store) THEN [res |-> handleDocumentNotFound, store |-> store]
  ELSE IF HasKey(updateData, "gtin") /\ GtinTaken(store, Get(updateData, "gtin"), id)
  THEN [res |-> handleError("duplicate"), store |-> store]
  ELSE LET updatedDoc == ApplyUpdate(store[id], updateData, t)
       IN [res |-> Ok(200, updatedDoc), store |-> [store EXCEPT ![id] = updatedDoc]]

(* updateById: findOneAndUpdate({ _id: id, deletedAt: null }, ...) *)
updateById(store, id, updateData, t, fail) ==
  IF fail THEN [res |-> handleError("store"), store |-> store]
  ELSE IF ~Active(store, id) THEN [res |-> handleDocumentNotFound, store |-> store]
  ELSE IF HasKey(updateData, "gtin") /\ GtinTaken(store, Get(updateData, "gtin"), id)
  THEN [res |-> handleError("duplicate"), store |-> store]
  ELSE LET updatedDoc == ApplyUpdate(store[id], updateData, t)
       IN [res |-> Ok(200, updatedDoc), store |-> [store EXCEPT ![id] = updatedDoc]]

(* the insert without the unique index on gtin *)
create_NoUniqueIndex(store, data, t, fail) ==
  IF ~(RequiredPaths \subseteq Keys(data))
  THEN [res |-> handleError("validation"), store |-> store]
  ELSE IF fail THEN [res |-> handleError("store"), store |-> store]
  ELSE LET savedDoc == NewDoc(Put(data, "_id", Len(store) + 1), t)
       IN [res |-> Ok(201, savedDoc), store |-> Append(store, savedDoc)]

(* create: new Model(data).save() on the product collection *)
create(store, data, t, fail) ==
  IF ~(RequiredPaths \subseteq Keys(data))
  THEN [res |-> handleError("validation"), store |-> store]
  ELSE IF fail THEN [res |-> handleError("store"), store |-> store]
  ELSE IF GtinTaken(store, Get(data, "gtin"), 0)
  THEN [res |-> handleError("duplicate"), store |-> store]
  ELSE LET savedDoc == NewDoc(Put(data, "_id", Len(store) + 1), t)
       IN [res |-> Ok(201, savedDoc), store |-> Append(store, savedDoc)]

(* ------------------------ ProductChangeService ------------------------- *)
(* an upsert that keeps one record per product *)
createAudit_OneRecordPerProduct(log, productId, changedBy, operation, previous, next, t, fail) ==
  IF fail THEN [res |-> handleError("store"), log |-> log]
  ELSE LET payload == [productId |-> productId, changedBy |-> changedBy,
                       changedAt |-> t, previousValues |-> previous,
                       newValues |-> next, operation |-> operation,
                       deletedAt |-> 0]
           held == {i \in 1..Len(log) : log[i].productId = productId}
       IN [res |-> Ok(201, payload),
           log |-> IF held = {} THEN Append(log, payload)
                   ELSE [log EXCEPT ![CHOOSE i \in held : TRUE] = payload]]

(* createAudit: the insert into the audit collection; a rejected or failed *)
(* insert is returned as an error object, never thrown                     *)
createAudit(log, productId, changedBy, operation, previous, next, t, fail) ==
  IF fail THEN [res |-> handleError("store"), log |-> log]
  ELSE LET payload == [productId |-> productId, changedBy |-> changedBy,
                       changedAt |-> t, previousValues |-> previous,
                       newValues |-> next, operation |-> operation,
                       deletedAt |-> 0]
       IN [res |-> Ok(201, payload), log |-> Append(log, payload)]

(* the orders in which the records at the indices S of log can be listed *)
Orderings(S) ==
  {f \in [1..Cardinality(S) -> S] : \A a, b \in 1..Cardinality(S) : a # b => f[a] # f[b]}

(* the same query sorted { changedAt: 1 } *)
findByProduct_Ascending(log, productId, fail) ==
  IF fail THEN {handleError("store")}
  ELSE LET S == {i \in 1..Len(log) : log[i].productId = productId /\ log[i].deletedAt = 0}
       IN {[status |-> 200, data |-> [k \in 1..Cardinality(S) |-> log[f[k]]], error |-> ""] :
             f \in {g \in Orderings(S) :
                      \A a, b \in 1..Cardinality(S) :
                        a < b => log[g[a]].changedAt <= log[g[b]].changedAt}}

(* findByProduct: find({ productId, deletedAt: null }).sort({ changedAt: -1 }); *)
(* the answers the query can give (records with equal changedAt come in    *)
(* either order)                                                           *)
findByProduct(log, productId, fail) ==
  IF fail THEN {handleError("store")}
  ELSE LET S == {i \in 1..Len(log) : log[i].productId = productId /\ log[i].deletedAt = 0}
       IN {[status |-> 200, data |-> [k \in 1..Cardinality(S) |-> log[f[k]]], error |-> ""] :
             f \in {g \in Orderings(S) :
                      \A a, b \in 1..Cardinality(S) :
                        a < b => log[g[a]].changedAt >= log[g[b]].changedAt}}

(* ---------------------------- integrations ---------------------------- *)
(* rabbitmq publish: the message reaches the exchange, or the error is     *)
(* caught, logged and answered with false                                  *)
publish(exchange, payload, fail) ==
  IF fail THEN [ok |-> FALSE, bus |-> exchange]
  ELSE [ok |-> TRUE, bus |-> exchange \cup {payload}]

(* mapProduct: the Elasticsearch document of a product *)
mapProduct(doc) ==
  [k \in (DOMAIN doc \cap {"gtin", "name", "brand", "description", "netWeight",
                           "weightUnit", "status", "createdBy", "createdAt",
                           "updatedAt"}) \cup {"manufacturer"} |->
     IF k \in DOMAIN doc THEN doc[k] ELSE <<>>]

(* a failed upsert that removes the document of that id from the index *)
upsertProduct_DropsOnFailure(idx, doc, fail) ==
  IF fail THEN {e \in idx : e.id # doc._id}
  ELSE {e \in idx : e.id # doc._id} \cup {[id |-> doc._id, document |-> mapProduct(doc)]}

(* upsertProduct: es.index({ id, document }) replaces the document of that *)
(* id, or the error is caught and logged                                   *)
upsertProduct(idx, doc, fail) ==
  IF fail THEN idx
  ELSE {e \in idx : e.id # doc._id} \cup {[id |-> doc._id, document |-> mapProduct(doc)]}

(* ---------------------------- ProductService --------------------------- *)
buildEventEnvelope(type, aggregateId, data, actor, t) ==
  [id |-> <<type, aggregateId, t>>, type |-> type, occurredAt |-> t,
   aggregateType |-> "Product", aggregateId |-> aggregateId,
   actor |-> actor.userId, data |-> data]

(* the role compared without toLowerCase *)
createStatus_CaseSensitive(actor) ==
  IF actor.role = RoleTypeEnum.EDITOR
  THEN ProductStatus.PUBLISHED
  ELSE ProductStatus.PENDING_REVIEW

(* createWithRole: the status derived from the actor's role *)
createStatus(actor) ==
  IF toLowerCase(actor.role) = RoleTypeEnum.EDITOR
  THEN ProductStatus.PUBLISHED
  ELSE ProductStatus.PENDING_REVIEW

(* createWithRole: payload = { ...input, status, createdBy: actor.userId } *)
createPayload(actor, input) ==
  Put(Put(input, "status", createStatus(actor)), "createdBy", actor.userId)

(* createWithRole: the newValues literal of the CREATE audit record; JSON   *)
(* drops the properties whose value is undefined                           *)
createSnapshot(doc) == pick(doc, BUSINESS_FIELDS)

(* the PROVIDER restrictions without the check for a status key *)
providerGuard_NoStatusKeyCheck(actor, current, updates) ==
  IF toLowerCase(actor.role) = RoleTypeEnum.PROVIDER
  THEN IF current.createdBy # actor.userId
       THEN Err(403, "Forbidden: not the owner of this product")
       ELSE IF current.status # ProductStatus.PENDING_REVIEW
       THEN Err(400, "Only pending products can be updated by provider")
       ELSE NoResult
  ELSE NoResult

(* updateWithAudit: the PROVIDER restrictions; NoResult = passed *)
providerGuard(actor, current, updates) ==
  IF toLowerCase(actor.role) = RoleTypeEnum.PROVIDER
  THEN IF current.createdBy # actor.userId
       THEN Err(403, "Forbidden: not the owner of this product")
       ELSE IF current.status # ProductStatus.PENDING_REVIEW
       THEN Err(400, "Only pending products can be updated by provider")
       ELSE IF HasKey(updates, "status")
       THEN Err(400, "Status changes are not allowed in this operation")
       ELSE NoResult
  ELSE NoResult

(* approvePending: the role check *)
approveRoleGuard(actor) ==
  IF toLowerCase(actor.role) # RoleTypeEnum.EDITOR
  THEN Err(403, "Forbidden: only editors can approve products")
  ELSE NoResult

(* no status check before approving *)
approveStatusGuard_None(current) == NoResult

(* approvePending: the status check on the document read *)
approveStatusGuard(current) ==
  IF current.status # ProductStatus.PENDING_REVIEW
  THEN Err(400, "Only pending products can be approved")
  ELSE NoResult

(* approvePending: updates = { status: PUBLISHED } *)
approveUpdates == << <<"status", ProductStatus.PUBLISHED>> >>

(* an early return for server errors only *)
writeFailed_ServerOnly(res) == res.status >= 500

(* `if (x.status >= 400) return x` after create / updateById *)
writeFailed(res) == res.status >= 400

(* ------------------------------- inputs -------------------------------- *)
Acme == << <<"name", "Acme GmbH">>, <<"code", "AC">> >>

AcmeReordered == << <<"code", "AC">>, <<"name", "Acme GmbH">> >>

Provider1 == [userId |-> "u1", role |-> "provider"]

Provider2 == [userId |-> "u2", role |-> "PROVIDER"]

Editor == [userId |-> "u3", role |-> "EDITOR"]

Actors == {Provider1, Provider2, Editor}

InputA == << <<"gtin", "96385074">>, <<"name", "Choc Bar">>, <<"brand", "Acme">>,
             <<"manufacturer", Acme>> >>

InputB == << <<"gtin", "73513537">>, <<"name", "Choc Bar">>, <<"description", "">>,
             <<"brand", "Acme">>, <<"manufacturer", Acme>>,
             <<"status", "PUBLISHED">> >>

CreateInputs == {InputA, InputB}

UpdatePayloads ==
  { <<>>,
    << <<"name", "Choc Bar">> >>,
    << <<"name", "Nut Bar">> >>,
    << <<"name", "Nut Bar">>, <<"status", "PENDING_REVIEW">> >>,
    << <<"manufacturer", AcmeReordered>> >>,
    << <<"gtin", "73513537">> >>,
    << <<"name", "Nut Bar">>, <<"createdBy", "u2">> >> }

(* ----------------------------- auth.service ---------------------------- *)
(* A refresh JWT as presented by a client: signed with the refresh key and *)
(* unexpired ("signed"), expired, not verifiable ("forged"), or the empty  *)
(* string; a signed token carries the payload { userId, jti } (0 and ""    *)
(* are the falsy values).                                                  *)
Jwt(kind, jti, userId) == [kind |-> kind, jti |-> jti, userId |-> userId]

LoginToken == Jwt("signed", 1, "u1")

PresentedTokens ==
  { LoginToken, Jwt("signed", 9, "u1"), Jwt("signed", 0, "u1"),
    Jwt("expired", 1, "u1"), Jwt("forged", 1, "u1"), Jwt("empty", 0, "") }

(* jwt.verify(refreshToken, refreshKey): the payload, or a JWT error *)
jwtVerify(token) ==
  IF token.kind = "signed"
  THEN [threw |-> FALSE, jti |-> token.jti, userId |-> token.userId]
  ELSE [threw |-> TRUE, jti |-> 0, userId |-> ""]

(* RefreshToken.findOne({ jti, userId }): the position of the document, 0  *)
(* when there is none                                                      *)
findOneToken(tokens, jti, userId) ==
  IF \E i \in 1..Len(tokens) : tokens[i].jti = jti /\ tokens[i].userId = userId
  THEN CHOOSE i \in 1..Len(tokens) : tokens[i].jti = jti /\ tokens[i].userId = userId
  ELSE 0

(* !stored || stored.revokedAt || (stored.expiresAt <= new Date()) *)
rejectStored(tokens, i) ==
  i = 0 \/ tokens[i].revokedAt # 0 \/ tokens[i].expiresAt = "past"

AuthCalls == 1..MaxOps

IdleAuth == [pc |-> "idle", token |-> Jwt("empty", 0, ""), stored |-> 0, status |-> 0,
             issued |-> 0, revoked |-> FALSE, storeFailed |-> FALSE]

AuthFrame ==
  UNCHANGED <<products, productChanges, events, upserts, bus, index, req, now, writes, eval,
              rabbitVars>>

AuthDone(a, status) == [auth[a] EXCEPT !.pc = "done", !.status = status]

(* refreshToken(token) up to its first await: the token is required and    *)
(* verified, then RefreshToken.findOne is issued                           *)
RefreshCall(a, token) ==
  /\ auth[a].pc = "idle"
  /\ ops < MaxOps
  /\ ops' = ops + 1
  /\ LET call == [auth[a] EXCEPT !.token = token]
         decoded == jwtVerify(token)
     IN auth' = [auth EXCEPT ![a] =
          IF token.kind = "empty" THEN [call EXCEPT !.pc = "done", !.status = 400]
          ELSE IF decoded.threw THEN [call EXCEPT !.pc = "done", !.status = 401]
          ELSE IF decoded.jti = 0 \/ decoded.userId = ""
          THEN [call EXCEPT !.pc = "done", !.status = 401]
          ELSE [call EXCEPT !.pc = "r_find"]]
  /\ UNCHANGED refreshTokens
  /\ AuthFrame

(* findOne answers; a live token gets revokedAt set and save() is issued *)
RefreshFind(a) ==
  /\ auth[a].pc = "r_find"
  /\ \E fail \in BOOLEAN :
       LET stored == findOneToken(refreshTokens, auth[a].token.jti, auth[a].token.userId)
       IN auth' = [auth EXCEPT ![a] =
            IF fail THEN [AuthDone(a, 500) EXCEPT !.storeFailed = TRUE]
            ELSE IF rejectStored(refreshTokens, stored) THEN AuthDone(a, 401)
            ELSE [@ EXCEPT !.pc = "r_save", !.stored = stored]]
  /\ UNCHANGED <<refreshTokens, ops>>
  /\ AuthFrame

(* stored.save() answers; then userService.findById is issued *)
RefreshSave(a) ==
  /\ auth[a].pc = "r_save"
  /\ \E fail \in BOOLEAN :
       IF fail
       THEN /\ auth' = [auth EXCEPT ![a] = [AuthDone(a, 500) EXCEPT !.storeFailed = TRUE]]
            /\ UNCHANGED refreshTokens
       ELSE /\ refreshTokens' = [refreshTokens EXCEPT ![auth[a].stored].revokedAt = now]
            /\ auth' = [auth EXCEPT ![a] = [@ EXCEPT !.pc = "r_user", !.revoked = TRUE]]
  /\ UNCHANGED ops
  /\ AuthFrame

(* userService.findById answers (found says whether with status 200); the  *)
(* access token is signed and generateRefreshToken signs the new refresh   *)
(* token and issues RefreshToken.create                                    *)
RefreshUser(a) ==
  /\ auth[a].pc = "r_user"
  /\ \E found \in BOOLEAN :
       auth' = [auth EXCEPT ![a] =
         IF ~found THEN AuthDone(a, 404) ELSE [@ EXCEPT !.pc = "r_create"]]
  /\ UNCHANGED <<refreshTokens, ops>>
  /\ AuthFrame

(* RefreshToken.create({ jti, expiresAt, userId }) answers *)
RefreshCreate(a) ==
  /\ auth[a].pc = "r_create"
  /\ \E fail \in BOOLEAN :
       IF fail
       THEN /\ auth' = [auth EXCEPT ![a] = [AuthDone(a, 500) EXCEPT !.storeFailed = TRUE]]
            /\ UNCHANGED refreshTokens
       ELSE LET jti == Len(refreshTokens) + 1 IN
            /\ refreshTokens' = Append(refreshTokens,
                  [jti |-> jti, userId |-> auth[a].token.userId, revokedAt |-> 0,
                   expiresAt |-> "future"])
            /\ auth' = [auth EXCEPT ![a] = [AuthDone(a, 200) EXCEPT !.issued = jti]]
  /\ UNCHANGED ops
  /\ AuthFrame

NextAuth ==
  \/ \E a \in AuthCalls, token \in PresentedTokens : RefreshCall(a, token)
  \/ \E a \in AuthCalls : RefreshFind(a)
  \/ \E a \in AuthCalls : RefreshSave(a)
  \/ \E a \in AuthCalls : RefreshUser(a)
  \/ \E a \in AuthCalls : RefreshCreate(a)

(* ------------------------------ rabbitmq.js ---------------------------- *)
(* let connection = null, channel = null, connecting = null: connecting is *)
(* the promise of the connection attempt under way or last made.           *)
NoRabbit == [connection |-> "null", channel |-> "null", connecting |-> "null"]

MaxRetries == 3

(* the start-up sequence: waitForRabbitMQ({ retries }), then a publish; the *)
(* broker refuses connections during the first `down` attempts of the loop *)
IdleBoot == [pc |-> "idle", retries |-> 0, down |-> 0, attempt |-> 0,
             ready |-> "none", published |-> "none"]

InitRabbit ==
  /\ rabbit = NoRabbit
  /\ boot = IdleBoot

Reachable == boot.attempt > boot.down

RabbitFrame ==
  UNCHANGED <<products, productChanges, events, upserts, bus, index, req, now, ops, writes,
              eval, authVars>>

(* waitForRabbitMQ: connect() of the current attempt has thrown *)
attemptFailed(b) ==
  IF b.attempt < b.retries
  THEN [b EXCEPT !.pc = "w_connect", !.attempt = b.attempt + 1]
  ELSE [b EXCEPT !.pc = "ended", !.ready = "threw"]

(* the caller of connect() has its answer: waitForRabbitMQ returns true or *)
(* goes to its catch, publish returns true or false                        *)
connected(b, ok) ==
  IF b.pc \in {"w_connect", "w_await"}
  THEN IF ok THEN [b EXCEPT !.pc = "ended", !.ready = "true"] ELSE attemptFailed(b)
  ELSE [b EXCEPT !.pc = "done", !.published = IF ok THEN "true" ELSE "false"]

(* waitForRabbitMQ(options) is called *)
WaitForRabbitMQ(retries, down) ==
  /\ boot.pc = "idle"
  /\ boot' = [boot EXCEPT !.pc = "w_connect", !.retries = retries, !.down = down,
                           !.attempt = 1]
  /\ UNCHANGED rabbit
  /\ RabbitFrame

(* connect(): the channel if there is one, else the promise of the attempt *)
(* under way or last made, else a new attempt                              *)
Connect ==
  /\ boot.pc \in {"w_connect", "p_connect"}
  /\ IF rabbit.channel # "null"
     THEN /\ boot' = connected(boot, TRUE)
          /\ UNCHANGED rabbit
     ELSE IF rabbit.connecting = "rejected"
     THEN /\ boot' = connected(boot, FALSE)
          /\ UNCHANGED rabbit
     ELSE /\ boot' = [boot EXCEPT !.pc = IF boot.pc = "w_connect" THEN "w_await"
                                                                 ELSE "p_await"]
          /\ rabbit' = [rabbit EXCEPT !.connecting = "pending"]
  /\ RabbitFrame

(* the attempt settles: amqplib.connect, createConfirmChannel and           *)
(* assertExchange succeed when the broker is reachable                     *)
ConnectSettle ==
  /\ rabbit.connecting = "pending"
  /\ rabbit' = IF Reachable
               THEN [connection |-> "open", channel |-> "open", connecting |-> "fulfilled"]
               ELSE [rabbit EXCEPT !.connecting = "rejected"]
  /\ UNCHANGED boot
  /\ RabbitFrame

(* the caller awaiting the promise resumes *)
ConnectResume ==
  /\ boot.pc \in {"w_await", "p_await"}
  /\ rabbit.connecting # "pending"
  /\ boot' = connected(boot, rabbit.connecting # "rejected")
  /\ UNCHANGED rabbit
  /\ RabbitFrame

(* conn.on("close") *)
ConnectionClosed ==
  /\ rabbit.connection = "open"
  /\ boot.pc \notin {"w_await", "p_await"}
  /\ rabbit' = NoRabbit
  /\ UNCHANGED boot
  /\ RabbitFrame

(* publish(routingKey, payload) after start-up *)
PublishCall ==
  /\ boot.pc = "ended"
  /\ boot' = [boot EXCEPT !.pc = "p_connect", !.attempt = boot.retries + 1]
  /\ UNCHANGED rabbit
  /\ RabbitFrame

NextRabbit ==
  \/ \E retries \in 1..MaxRetries, down \in 0..MaxRetries : WaitForRabbitMQ(retries, down)
  \/ Connect
  \/ ConnectSettle
  \/ ConnectResume
  \/ ConnectionClosed
  \/ PublishCall

(* ------------------------------- state --------------------------------- *)
NoActor == [userId |-> "", role |-> ""]

(* one in-flight call: its arguments, its locals and, as history, what it  *)
(* has done so far (wrote: product write succeeded, audited: audit record  *)
(* inserted, auditFailed: the audit insert was rejected, published /       *)
(* indexed: publishEvent / upsertProduct called; evt: the envelope handed  *)
(* to publishEvent; delivery / indexing: how the two promises settled)     *)
IdleReq == [pc |-> "idle", op |-> "none", actor |-> NoActor, id |-> 0,
            updates |-> <<>>, populate |-> FALSE, current |-> <<>>,
            previous |-> <<>>, next |-> <<>>, out |-> NoResult, ts |-> 0,
            result |-> NoResult, wrote |-> FALSE, audited |-> FALSE,
            auditFailed |-> FALSE, published |-> FALSE, indexed |-> FALSE,
            evt |-> <<>>, delivery |-> "none", indexing |-> "none"]

(* one live refresh token, issued to u1 at login, and no call in flight *)
InitTokens ==
  /\ refreshTokens = << [jti |-> 1, userId |-> "u1", revokedAt |-> 0,
                         expiresAt |-> "future"] >>
  /\ auth = [a \in AuthCalls |-> IdleAuth]

(* the empty catalog after start-up *)
InitEmpty ==
  /\ products = <<>>
  /\ productChanges = <<>>
  /\ events = <<>>
  /\ upserts = <<>>
  /\ bus = {}
  /\ index = {}
  /\ now = 1
  /\ writes = <<>>
  /\ InitTokens
  /\ InitRabbit

(* the catalog after createWithRole(Provider1, InputA) has run to its end   *)
(* on the empty catalog                                                    *)
InitSubmitted ==
  LET c == create(<<>>, createPayload(Provider1, InputA), 1, FALSE)
      created == c.res.data[1]
      a == createAudit(<<>>, created._id, Provider1.userId, OperationType.CREATE,
                       <<>>, createSnapshot(created), 2, FALSE)
      evt == buildEventEnvelope("product.created", created._id,
               << <<"productId", created._id>>, <<"status", created.status>>,
                  <<"gtin", created.gtin>> >>, Provider1, 3)
  IN /\ products = c.store
     /\ productChanges = a.log
     /\ events = <<evt>>
     /\ upserts = << <<created>> >>
     /\ bus = publish({}, evt, FALSE).bus
     /\ index = upsertProduct({}, created, FALSE)
     /\ now = 3
     /\ writes = <<1>>
     /\ InitTokens
     /\ InitRabbit

(* no pure-function call under evaluation *)
NoEval == [f |-> "none", pc |-> "idle"]

Init ==
  /\ InitEmpty \/ InitSubmitted
  /\ req = [r \in Reqs |-> IdleReq]
  /\ ops = 0
  /\ eval = NoEval

Finish(r, res) == [req[r] EXCEPT !.pc = "done", !.result = res]

(* createWithRole after `created = await this.create(...)`: the early      *)
(* return, the TypeError of created.data._id when data is undefined, or    *)
(* the call of createAudit                                                 *)
afterCreate(call, created, t) ==
  IF writeFailed(created) THEN [call EXCEPT !.pc = "done", !.result = created]
  ELSE IF created.data = <<>>
  THEN [call EXCEPT !.pc = "done", !.result = handleError("TypeError")]
  ELSE [call EXCEPT !.pc = "c_audit", !.id = created.data[1]._id,
                    !.out = created, !.ts = t]

(* a new call takes the first free slot *)
FreeSlot(r) ==
  /\ req[r].pc = "idle"
  /\ \A q \in Reqs : q < r => req[q].pc # "idle"

PendingCreates == Cardinality({r \in Reqs : req[r].pc = "c_save"})

(* -------------------------- createWithRole ----------------------------- *)
CreateCall(r, actor, input, populate) ==
  /\ FreeSlot(r)
  /\ ops < MaxOps
  /\ Len(products) + PendingCreates < MaxProducts
  /\ req' = [req EXCEPT ![r] = [IdleReq EXCEPT !.pc = "c_save", !.op = "create",
                                  !.actor = actor, !.populate = populate,
                                  !.updates = createPayload(actor, input),
                                  !.ts = now]]
  /\ ops' = ops + 1
  /\ UNCHANGED <<products, productChanges, events, upserts, bus, index, now, writes>>

(* this.create(payload) answers; without populate the audit insert is issued *)
CreateSave(r) ==
  /\ req[r].pc = "c_save"
  /\ \E fail \in BOOLEAN :
       LET c == create(products, req[r].updates, req[r].ts, fail) IN
       /\ products' = c.store
       /\ now' = Tick(now, c.res.status = 201)
       /\ writes' = IF c.res.status = 201 THEN Append(writes, 1) ELSE writes
       /\ IF c.res.status = 201 /\ req[r].populate
          THEN req' = [req EXCEPT ![r] =
                         [@ EXCEPT !.pc = "c_refetch", !.id = c.res.data[1]._id,
                                   !.wrote = TRUE]]
          ELSE req' = [req EXCEPT ![r] =
                         afterCreate([req[r] EXCEPT !.wrote = c.res.status = 201],
                                     c.res, now')]
  /\ UNCHANGED <<productChanges, events, upserts, bus, index, ops>>

(* create(): the findById(savedDoc._id, populateOptions) answers; with no   *)
(* document created.data is undefined and created.data._id throws           *)
CreateRefetch(r) ==
  /\ req[r].pc = "c_refetch"
  /\ \E fail \in BOOLEAN :
       LET f == findById(products, req[r].id, fail) IN
       req' = [req EXCEPT ![r] =
                 afterCreate(req[r], [status |-> 201, data |-> f.data, error |-> ""], now)]
  /\ UNCHANGED <<products, productChanges, events, upserts, bus, index, now, ops, writes>>

(* createAudit answers; publishEvent and upsertProduct are called, not awaited *)
CreateAudit(r) ==
  /\ req[r].pc = "c_audit"
  /\ \E fail \in BOOLEAN :
       LET created == req[r].out.data[1]
           a == createAudit(productChanges, created._id, req[r].actor.userId,
                            OperationType.CREATE, <<>>, createSnapshot(created),
                            req[r].ts, fail)
           evt == buildEventEnvelope("product.created", created._id,
                    << <<"productId", created._id>>, <<"status", created.status>>,
                       <<"gtin", created.gtin>> >>, req[r].actor, now')
       IN /\ productChanges' = a.log
          /\ now' = Tick(now, ~writeFailed(a.res))
          /\ events' = Append(events, evt)
          /\ upserts' = Append(upserts, req[r].out.data)
          /\ req' = [req EXCEPT ![r] =
                       [@ EXCEPT !.pc = "done", !.result = req[r].out,
                                 !.audited = a.res.status = 201,
                                 !.auditFailed = a.res.status # 201,
                                 !.published = TRUE, !.indexed = TRUE,
                                 !.evt = <<evt>>, !.delivery = "pending",
                                 !.indexing = "pending"]]
  /\ UNCHANGED <<products, bus, index, ops, writes>>

(* -------------------------- updateWithAudit ---------------------------- *)
UpdateCall(r, actor, id, updates) ==
  /\ FreeSlot(r)
  /\ ops < MaxOps
  /\ req' = [req EXCEPT ![r] = [IdleReq EXCEPT !.pc = "u_find", !.op = "update",
                                  !.actor = actor, !.id = id, !.updates = updates]]
  /\ ops' = ops + 1
  /\ UNCHANGED <<products, productChanges, events, upserts, bus, index, now, writes>>

(* findById(id) answers; role checks, diff, then the re-read or the write   *)
(* is issued                                                               *)
UpdateFind(r) ==
  /\ req[r].pc = "u_find"
  /\ \E fail \in BOOLEAN :
       LET currentRes == findById(products, req[r].id, fail) IN
       IF currentRes.status # 200
       THEN req' = [req EXCEPT ![r] = Finish(r, currentRes)]
       ELSE LET current == currentRes.data[1]
                guard == providerGuard(req[r].actor, current, req[r].updates)
                diff == computeAuditDiff(current, req[r].updates)
            IN IF guard # NoResult
               THEN req' = [req EXCEPT ![r] = Finish(r, guard)]
               ELSE IF ~hasChanges(diff.previous, diff.next)
               THEN req' = [req EXCEPT ![r] =
                              [@ EXCEPT !.pc = "u_reread", !.current = <<current>>]]
               ELSE req' = [req EXCEPT ![r] =
                              [@ EXCEPT !.pc = "u_write", !.current = <<current>>,
                                        !.previous = diff.previous,
                                        !.next = diff.next, !.ts = now]]
  /\ UNCHANGED <<products, productChanges, events, upserts, bus, index, now, ops, writes>>

(* no effective change: return this.findById(id, populateOptions, ...) *)
UpdateReread(r) ==
  /\ req[r].pc = "u_reread"
  /\ \E fail \in BOOLEAN :
       req' = [req EXCEPT ![r] = Finish(r, findById(products, req[r].id, fail))]
  /\ UNCHANGED <<products, productChanges, events, upserts, bus, index, now, ops, writes>>

(* updateById(id, updates) answers; on success the audit insert is issued *)
UpdateWrite(r) ==
  /\ req[r].pc = "u_write"
  /\ \E fail \in BOOLEAN :
       LET updated == updateById(products, req[r].id, req[r].updates, req[r].ts, fail) IN
       /\ products' = updated.store
       /\ now' = Tick(now, updated.res.status = 200)
       /\ IF writeFailed(updated.res)
          THEN /\ req' = [req EXCEPT ![r] = Finish(r, updated.res)]
               /\ writes' = writes
          ELSE /\ req' = [req EXCEPT ![r] =
                            [@ EXCEPT !.pc = "u_audit", !.out = updated.res,
                                      !.wrote = updated.res.status = 200,
                                      !.ts = now']]
               /\ writes' = IF updated.res.status = 200
                            THEN [writes EXCEPT ![req[r].id] = @ + 1] ELSE writes
  /\ UNCHANGED <<productChanges, events, upserts, bus, index, ops>>

UpdateAudit(r) ==
  /\ req[r].pc = "u_audit"
  /\ \E fail \in BOOLEAN :
       LET a == createAudit(productChanges, req[r].id, req[r].actor.userId,
                            OperationType.UPDATE, req[r].previous, req[r].next,
                            req[r].ts, fail)
           evt == buildEventEnvelope("product.updated", req[r].id,
                    << <<"productId", req[r].id>>,
                       <<"changed", [i \in 1..Len(req[r].updates) |-> req[r].updates[i][1]]>> >>,
                    req[r].actor, now')
       IN /\ productChanges' = a.log
          /\ now' = Tick(now, ~writeFailed(a.res))
          /\ events' = Append(events, evt)
          /\ upserts' = Append(upserts, req[r].out.data)
          /\ req' = [req EXCEPT ![r] =
                       [@ EXCEPT !.pc = "done", !.result = req[r].out,
                                 !.audited = a.res.status = 201,
                                 !.auditFailed = a.res.status # 201,
                                 !.published = TRUE, !.indexed = TRUE,
                                 !.evt = <<evt>>, !.delivery = "pending",
                                 !.indexing = "pending"]]
  /\ UNCHANGED <<products, bus, index, ops, writes>>

(* --------------------------- approvePending ---------------------------- *)
ApproveCall(r, actor, id) ==
  /\ FreeSlot(r)
  /\ ops < MaxOps
  /\ LET call == [IdleReq EXCEPT !.op = "approve", !.actor = actor, !.id = id]
         guard == approveRoleGuard(actor)
     IN req' = [req EXCEPT ![r] =
                  IF guard # NoResult
                  THEN [call EXCEPT !.pc = "done", !.result = guard]
                  ELSE [call EXCEPT !.pc = "a_find"]]
  /\ ops' = ops + 1
  /\ UNCHANGED <<products, productChanges, events, upserts, bus, index, now, writes>>

ApproveFind(r) ==
  /\ req[r].pc = "a_find"
  /\ \E fail \in BOOLEAN :
       LET currentRes == findById(products, req[r].id, fail) IN
       IF currentRes.status # 200
       THEN req' = [req EXCEPT ![r] = Finish(r, currentRes)]
       ELSE LET current == currentRes.data[1]
                guard == approveStatusGuard(current)
            IN IF guard # NoResult
               THEN req' = [req EXCEPT ![r] = Finish(r, guard)]
               ELSE req' = [req EXCEPT ![r] =
                              [@ EXCEPT !.pc = "a_write", !.current = <<current>>,
                                        !.updates = approveUpdates, !.ts = now]]
  /\ UNCHANGED <<products, productChanges, events, upserts, bus, index, now, ops, writes>>

ApproveWrite(r) ==
  /\ req[r].pc = "a_write"
  /\ \E fail \in BOOLEAN :
       LET updated == updateById(products, req[r].id, req[r].updates, req[r].ts, fail) IN
       /\ products' = updated.store
       /\ now' = Tick(now, updated.res.status = 200)
       /\ IF writeFailed(updated.res)
          THEN /\ req' = [req EXCEPT ![r] = Finish(r, updated.res)]
               /\ writes' = writes
          ELSE /\ req' = [req EXCEPT ![r] =
                            [@ EXCEPT !.pc = "a_audit", !.out = updated.res,
                                      !.wrote = updated.res.status = 200,
                                      !.ts = now']]
               /\ writes' = IF updated.res.status = 200
                            THEN [writes EXCEPT ![req[r].id] = @ + 1] ELSE writes
  /\ UNCHANGED <<productChanges, events, upserts, bus, index, ops>>

ApproveAudit(r) ==
  /\ req[r].pc = "a_audit"
  /\ \E fail \in BOOLEAN :
       LET current == req[r].current[1]
           a == createAudit(productChanges, req[r].id, req[r].actor.userId,
                            OperationType.STATUS_CHANGE,
                            << <<"status", current.status>> >>,
                            << <<"status", ProductStatus.PUBLISHED>> >>,
                            req[r].ts, fail)
           evt == buildEventEnvelope("product.approved", req[r].id,
                    << <<"productId", req[r].id>>,
                       <<"status", ProductStatus.PUBLISHED>> >>,
                    req[r].actor, now')
       IN /\ productChanges' = a.log
          /\ now' = Tick(now, ~writeFailed(a.res))
          /\ events' = Append(events, evt)
          /\ upserts' = Append(upserts, req[r].out.data)
          /\ req' = [req EXCEPT ![r] =
                       [@ EXCEPT !.pc = "done", !.result = req[r].out,
                                 !.audited = a.res.status = 201,
                                 !.auditFailed = a.res.status # 201,
                                 !.published = TRUE, !.indexed = TRUE,
                                 !.evt = <<evt>>, !.delivery = "pending",
                                 !.indexing = "pending"]]
  /\ UNCHANGED <<products, bus, index, ops, writes>>

(* ------------------- BaseService.softDeleteById ------------------------ *)
(* findById(id) without the deletedAt filter, then doc.deletedAt = now and  *)
(* save(), which writes the modified paths                                 *)
softDeleteById(id) ==
  /\ ops < MaxOps
  /\ id \in 1..Len(products)
  /\ products' = [products EXCEPT ![id] = [@ EXCEPT !.deletedAt = now, !.updatedAt = now]]
  /\ now' = Tick(now, TRUE)
  /\ ops' = ops + 1
  /\ UNCHANGED <<productChanges, events, upserts, bus, index, req, writes>>

(* the promises of publishEvent and upsertProduct, which the call did not  *)
(* await, settle: each delivers or fails on its own                        *)
Propagate(r, pubFail, idxFail) ==
  /\ req[r].pc = "done"
  /\ req[r].delivery = "pending"
  /\ LET p == publish(bus, req[r].evt[1], pubFail) IN
       /\ bus' = p.bus
       /\ index' = upsertProduct(index, req[r].out.data[1], idxFail)
       /\ req' = [req EXCEPT ![r] =
                    [@ EXCEPT !.delivery = IF p.ok THEN "ok" ELSE "failed",
                              !.indexing = IF idxFail THEN "failed" ELSE "ok"]]
  /\ UNCHANGED <<products, productChanges, events, upserts, now, ops, writes>>

(* the caller has the result and the promises have settled; the slot is    *)
(* free for the next call                                                  *)
Return(r) ==
  /\ req[r].pc = "done"
  /\ req[r].delivery # "pending"
  /\ req' = [req EXCEPT ![r] = IdleReq]
  /\ UNCHANGED <<products, productChanges, events, upserts, bus, index, now, ops, writes>>

(* every step the calls of the slots R can take, their arguments drawn     *)
(* from the actors A, the create inputs CI, the populate choices P and the *)
(* update payloads UP; PF: the <<publish fails, upsert fails>> outcomes    *)
Step(R, A, CI, P, UP, PF) ==
  \/ \E r \in R, actor \in A, input \in CI, populate \in P :
       CreateCall(r, actor, input, populate)
  \/ \E r \in R : CreateSave(r)
  \/ \E r \in R : CreateRefetch(r)
  \/ \E r \in R : CreateAudit(r)
  \/ \E r \in R, actor \in A, id \in Ids, updates \in UP :
       UpdateCall(r, actor, id, updates)
  \/ \E r \in R : UpdateFind(r)
  \/ \E r \in R : UpdateReread(r)
  \/ \E r \in R : UpdateWrite(r)
  \/ \E r \in R : UpdateAudit(r)
  \/ \E r \in R, actor \in A, id \in Ids : ApproveCall(r, actor, id)
  \/ \E r \in R : ApproveFind(r)
  \/ \E r \in R : ApproveWrite(r)
  \/ \E r \in R : ApproveAudit(r)
  \/ \E id \in Ids : softDeleteById(id)
  \/ \E r \in R, f \in PF : Propagate(r, f[1], f[2])
  \/ \E r \in R : Return(r)

(* broker and search cluster both reachable, or both down *)
Outage == {<<FALSE, FALSE>>, <<TRUE, TRUE>>}

(* calls one after the other, all inputs *)
Next == Step({1}, Actors, CreateInputs, BOOLEAN, UpdatePayloads, Outage) /\ UNCHANGED <<eval, authVars, rabbitVars>>

Spec == Init /\ [][Next]_vars

(* calls of refreshToken, overlapping ones included, on the empty or the   *)
(* submitted catalog                                                       *)
SpecAuth == Init /\ [][NextAuth]_vars

(* start-up against a broker that is down for a while, on the empty or the *)
(* submitted catalog                                                       *)
SpecRabbit == Init /\ [][NextRabbit]_vars

(* two overlapping calls *)
RaceActors == {Provider1, Editor}

RacePayloads == { << <<"name", "Choc Bar">> >>,
                  << <<"name", "Nut Bar">>, <<"status", "PENDING_REVIEW">> >> }

NextRace ==
  Step(Reqs, RaceActors, {InputA}, {TRUE}, RacePayloads, {<<FALSE, FALSE>>}) /\ UNCHANGED <<eval, authVars, rabbitVars>>

SpecRace == Init /\ [][NextRace]_vars

(* calls one after the other; publish and upsert fail independently *)
NextPropagation ==
  Step({1}, RaceActors, {InputA}, {TRUE}, RacePayloads, BOOLEAN \X BOOLEAN) /\ UNCHANGED <<eval, authVars, rabbitVars>>

SpecPropagation == Init /\ [][NextPropagation]_vars

(* two overlapping calls of an editor that create products and change gtin *)
GtinPayloads == { << <<"gtin", "96385074">> >>, << <<"gtin", "73513537">> >> }

NextGtin ==
  Step(Reqs, {Editor}, CreateInputs, {TRUE}, GtinPayloads, {<<FALSE, FALSE>>})
    /\ UNCHANGED <<eval, authVars, rabbitVars>>

SpecGtin == Init /\ [][NextGtin]_vars

(* callers of every role: the roles of RoleTypeEnum in some casing, a role *)
(* that is no member of it, and no role at all                             *)
RoleActors ==
  { [userId |-> "u1", role |-> "Provider"], Editor,
    [userId |-> "u4", role |-> "ADMIN"], [userId |-> "u5", role |-> "MANAGER"],
    [userId |-> "u6", role |-> "Employee"], [userId |-> "u7", role |-> "guest"],
    [userId |-> "u8", role |-> ""] }

RolePayloads == { << <<"name", "Nut Bar">> >>,
                  << <<"name", "Nut Bar">>, <<"status", "PENDING_REVIEW">> >> }

NextRoles ==
  Step({1}, RoleActors, {InputA}, {TRUE}, RolePayloads, {<<FALSE, FALSE>>})
    /\ UNCHANGED <<eval, authVars, rabbitVars>>

SpecRoles == Init /\ [][NextRoles]_vars

(* overlapping calls whose updates rename the product *)
InterleavePayloads == { << <<"name", "Nut Bar">> >>, << <<"name", "Oat Bar">> >> }

NextInterleave ==
  Step(Reqs, RaceActors, {InputA}, {TRUE}, InterleavePayloads, {<<FALSE, FALSE>>})
    /\ UNCHANGED <<eval, authVars, rabbitVars>>

SpecInterleave == Init /\ [][NextInterleave]_vars

(* ----------------------- reading the audit log ------------------------ *)
(* ProductChangeService.findByProduct(productId) called and answered; eval *)
(* keeps the answer and the length the log had                             *)
FindByProduct(productId) ==
  /\ \E fail \in BOOLEAN :
       \E res \in findByProduct(productChanges, productId, fail) :
         eval' = [f |-> "findByProduct", pc |-> "return", productId |-> productId,
                  out |-> res, seen |-> Len(productChanges)]
  /\ UNCHANGED <<products, productChanges, events, upserts, bus, index, req, now, ops,
                 writes, authVars, rabbitVars>>

AuditPayloads == { << <<"name", "Nut Bar">> >> }

(* calls one after the other on the submitted product, and readers of the  *)
(* audit log                                                               *)
NextAudit ==
  \/ Step({1}, RaceActors, {InputA}, {TRUE}, AuditPayloads, {<<FALSE, FALSE>>})
       /\ UNCHANGED <<eval, authVars, rabbitVars>>
  \/ \E productId \in Ids : FindByProduct(productId)

SpecAudit == Init /\ [][NextAudit]_vars

(* --------------------- computeAuditDiff on its own --------------------- *)
(* the stored documents of createWithRole(Provider1, InputA) and of        *)
(* createWithRole(Editor, InputB)                                          *)
DocA == create(<<>>, createPayload(Provider1, InputA), 1, FALSE).res.data[1]

DocB == create(<<>>, createPayload(Editor, InputB), 1, FALSE).res.data[1]

DiffDocs == {DocA, DocB}

OtherMaker == << <<"name", "Other AG">>, <<"code", "AC">> >>

(* a property that is absent or has one of the values *)
Opt(k, values) == {<<>>} \cup { << <<k, v>> >> : v \in values }

(* update payloads over name, description, manufacturer and the            *)
(* non-business key createdBy, with the keys in either order               *)
DiffUpdates ==
  LET names == Opt("name", {"Choc Bar", "Nut Bar"})
      descriptions == Opt("description", {"", "Tasty"})
      makers == Opt("manufacturer", {Acme, AcmeReordered, OtherMaker})
      owners == Opt("createdBy", {"u2"})
  IN {a \o b \o c \o d : a \in names, b \in descriptions, c \in makers, d \in owners}
       \cup {d \o c \o b \o a : a \in names, b \in descriptions, c \in makers, d \in owners}

InitDiff ==
  /\ InitEmpty
  /\ req = [r \in Reqs |-> IdleReq]
  /\ ops = 0
  /\ eval \in {[f |-> "computeAuditDiff", pc |-> "call", current |-> d, updates |-> u,
                 out |-> [previous |-> <<>>, next |-> <<>>]] :
                d \in DiffDocs, u \in DiffUpdates}

EvalComputeAuditDiff ==
  /\ eval.f = "computeAuditDiff" /\ eval.pc = "call"
  /\ eval' = [eval EXCEPT !.pc = "return",
                           !.out = computeAuditDiff(eval.current, eval.updates)]
  /\ UNCHANGED <<products, productChanges, events, upserts, bus, index, req, now, ops,
                 writes, authVars, rabbitVars>>

NextDiff == EvalComputeAuditDiff

SpecDiff == InitDiff /\ [][NextDiff]_vars

(* ------------------------------ gtin.util ------------------------------ *)
(* A string is the sequence of its characters, a character the number      *)
(* charCodeAt(i) - 48: the digits are 0..9.                                *)
IsNumeric(str) == Len(str) > 0 /\ \A i \in 1..Len(str) : str[i] \in 0..9

(* weight 3 on the odd positions, whatever the length *)
RECURSIVE checkSum_OddPositions(_, _)
checkSum_OddPositions(base, i) ==
  IF i >= Len(base) THEN 0
  ELSE LET d == base[i + 1]
           pos == i + 1
           weight3 == pos % 2 = 1
       IN d * (IF weight3 THEN 3 ELSE 1) + checkSum_OddPositions(base, i + 1)

(* computeCheckDigit: the loop `for (let i = 0; i < n; i++) sum += ...` *)
RECURSIVE checkSum(_, _)
checkSum(base, i) ==
  IF i >= Len(base) THEN 0
  ELSE LET n == Len(base)
           d == base[i + 1]
           pos == i + 1
           weight3 == (n % 2 = 0 /\ pos % 2 = 0) \/ (n % 2 = 1 /\ pos % 2 = 1)
       IN d * (IF weight3 THEN 3 ELSE 1) + checkSum(base, i + 1)

(* computeCheckDigit(base) for a numeric base (it throws otherwise) *)
computeCheckDigit(base) ==
  LET mod == checkSum(base, 0) % 10 IN (10 - mod) % 10

(* the format test alone *)
isValidGTIN_FormatOnly(gtin) == Len(gtin) \in {8, 12, 13, 14} /\ IsNumeric(gtin)

(* isValidGTIN: the format test, then the last digit against the computed  *)
(* check digit                                                             *)
isValidGTIN(gtin) ==
  IF ~(Len(gtin) \in {8, 12, 13, 14} /\ IsNumeric(gtin)) THEN FALSE
  ELSE LET base == SubSeq(gtin, 1, Len(gtin) - 1)
           cd == gtin[Len(gtin)]
       IN IF cd < 0 \/ cd > 9 THEN FALSE
          ELSE computeCheckDigit(base) = cd

(* base lengths of GTIN-8 / 12 / 13 / 14 *)
BaseLengths == {7, 11, 12, 13}

GtinTemplates == { <<4, 0, 0, 6, 3, 8, 1, 3, 3, 3, 9, 3, 1>>,
                   <<9, 9, 9, 9, 9, 9, 9, 9, 9, 9, 9, 9, 9>> }

(* numeric bases of every length: a template with any one digit replaced *)
GtinBases ==
  {[i \in 1..n |-> IF i = q THEN d ELSE t[i]] :
     t \in GtinTemplates, n \in BaseLengths, q \in 1..13, d \in 0..9}

InitGtinUtil ==
  /\ InitEmpty
  /\ req = [r \in Reqs |-> IdleReq]
  /\ ops = 0
  /\ eval \in {[f |-> "gtin", pc |-> "call", base |-> b, cd |-> 0, gtin |-> <<>>,
                 valid |-> FALSE, mutated |-> <<>>, mutatedValid |-> FALSE] :
                b \in GtinBases}

EvalFrame ==
  UNCHANGED <<products, productChanges, events, upserts, bus, index, req, now, ops, writes,
              authVars, rabbitVars>>

(* computeCheckDigit(base) *)
EvalComputeCheckDigit ==
  /\ eval.f = "gtin" /\ eval.pc = "call"
  /\ eval' = [eval EXCEPT !.pc = "digit", !.cd = computeCheckDigit(eval.base)]
  /\ EvalFrame

(* isValidGTIN(base + computeCheckDigit(base)) *)
EvalIsValidGTIN ==
  /\ eval.f = "gtin" /\ eval.pc = "digit"
  /\ LET gtin == Append(eval.base, eval.cd)
     IN eval' = [eval EXCEPT !.pc = "valid", !.gtin = gtin, !.valid = isValidGTIN(gtin)]
  /\ EvalFrame

(* isValidGTIN of the string with the digit at one position replaced by    *)
(* another digit                                                           *)
EvalIsValidMutated ==
  /\ eval.f = "gtin" /\ eval.pc = "valid"
  /\ \E q \in 1..Len(eval.gtin), d \in 0..9 :
       /\ d # eval.gtin[q]
       /\ LET mutated == [eval.gtin EXCEPT ![q] = d]
          IN eval' = [eval EXCEPT !.pc = "return", !.mutated = mutated,
                                  !.mutatedValid = isValidGTIN(mutated)]
  /\ EvalFrame

NextGtinUtil == EvalComputeCheckDigit \/ EvalIsValidGTIN \/ EvalIsValidMutated

SpecGtinUtil == InitGtinUtil /\ [][NextGtinUtil]_vars

(* A JavaScript value handed to normalizeGTIN14: a string (its characters  *)
(* as charCode - 48, so 17 is 'A', -16 a space, -3 a hyphen), a number,    *)
(* null or undefined.                                                      *)
JsString(chars) == [type |-> "string", chars |-> chars]

(* String.prototype.padStart(targetLength, "0") *)
RECURSIVE padStart(_, _)
padStart(str, targetLength) ==
  IF Len(str) >= targetLength THEN str ELSE padStart(<<0>> \o str, targetLength)

(* any run of 8 to 14 digits accepted *)
normalizeGTIN14_AnyLength(gtin) ==
  IF gtin.type # "string" \/ ~(Len(gtin.chars) \in 8..14 /\ IsNumeric(gtin.chars))
  THEN [threw |-> TRUE, value |-> <<>>]
  ELSE [threw |-> FALSE, value |-> padStart(gtin.chars, 14)]

(* normalizeGTIN14 *)
normalizeGTIN14(gtin) ==
  IF gtin.type # "string"
     \/ ~(Len(gtin.chars) \in {8, 12, 13, 14} /\ IsNumeric(gtin.chars))
  THEN [threw |-> TRUE, value |-> <<>>]
  ELSE [threw |-> FALSE, value |-> padStart(gtin.chars, 14)]

MaxGtinLen == 15

GtinChars == 0..9 \cup {17, -16, -3}

(* strings of every length up to MaxGtinLen: a digit pattern with any one  *)
(* character replaced by any character, digit or not                       *)
NormalizeStrings ==
  {[i \in 1..n |-> IF i = q THEN c ELSE (k * i + 3) % 10] :
     k \in {0, 7}, n \in 0..MaxGtinLen, q \in 0..MaxGtinLen, c \in GtinChars}

NormalizeInputs ==
  {JsString(str) : str \in NormalizeStrings}
    \cup {[type |-> t, chars |-> <<>>] : t \in {"number", "object", "undefined"}}

InitNormalize ==
  /\ InitEmpty
  /\ req = [r \in Reqs |-> IdleReq]
  /\ ops = 0
  /\ eval \in {[f |-> "normalizeGTIN14", pc |-> "call", gtin |-> v,
                 out |-> [threw |-> FALSE, value |-> <<>>]] : v \in NormalizeInputs}

EvalNormalizeGTIN14 ==
  /\ eval.f = "normalizeGTIN14" /\ eval.pc = "call"
  /\ eval' = [eval EXCEPT !.pc = "return", !.out = normalizeGTIN14(eval.gtin)]
  /\ EvalFrame

NextNormalize == EvalNormalizeGTIN14

SpecNormalize == InitNormalize /\ [][NextNormalize]_vars

(* ------------------------------- findAll ------------------------------- *)
(* A JavaScript value handed to the list operation as page or limit: a     *)
(* number (an integer), a string of characters, null or undefined.         *)
JsValue(type, n, chars) == [type |-> type, n |-> n, chars |-> chars]
NaN == [nan |-> TRUE, n |-> 0]
Num(n) == [nan |-> FALSE, n |-> n]

(* the value of the longest prefix of digits of str from position i on,    *)
(* acc being the value read so far                                         *)
RECURSIVE DigitsPrefix(_, _, _)
DigitsPrefix(str, i, acc) ==
  IF i > Len(str) \/ ~(str[i] \in 0..9) THEN acc
  ELSE DigitsPrefix(str, i + 1, 10 * acc + str[i])

RECURSIVE SkipSpaces(_, _)
SkipSpaces(str, i) ==
  IF i <= Len(str) /\ str[i] = -16 THEN SkipSpaces(str, i + 1) ELSE i

(* parseInt(value, 10): leading spaces, an optional sign, then digits; NaN *)
(* when no digit follows. A number is converted to its decimal string      *)
(* first, which for an integer gives the integer back.                     *)
parseInt(value) ==
  CASE value.type = "number" -> Num(value.n)
    [] value.type = "string" ->
         LET str == value.chars
             i == SkipSpaces(str, 1)
             signed == i <= Len(str) /\ str[i] \in {-3, -5}
             j == IF signed THEN i + 1 ELSE i
         IN IF j > Len(str) \/ ~(str[j] \in 0..9) THEN NaN
            ELSE IF signed /\ str[i] = -3 THEN Num(0 - DigitsPrefix(str, j, 0))
            ELSE Num(DigitsPrefix(str, j, 0))
    [] OTHER -> NaN

(* `x || d` on the result of parseInt: NaN and 0 are falsy *)
OrDefault(parsed, d) == IF parsed.nan \/ parsed.n = 0 THEN d ELSE parsed.n

(* a default parameter value replaces undefined only *)
DefaultParam(value, d) == IF value.type = "undefined" THEN JsValue("number", d, <<>>) ELSE value

Max(a, b) == IF a >= b THEN a ELSE b
Min(a, b) == IF a <= b THEN a ELSE b

(* Math.ceil(a / b) for a >= 0 and b # 0 *)
CeilDiv(a, b) ==
  IF b > 0 THEN (a + b - 1) \div b ELSE 0 - (a \div (0 - b))

(* BaseService.findAll over a collection of totalDocs matching documents:  *)
(* the set of results the call can give. The store refuses a negative skip *)
(* and reads a negative limit as its absolute value.                       *)
findAll(page, limit, totalDocs, fail) ==
  LET pageNum == Max(0, OrDefault(parseInt(DefaultParam(page, 0)), 0))
      pageSize == Min(250, OrDefault(parseInt(DefaultParam(limit, 250)), 250))
      skip == pageNum * pageSize
      size == IF pageSize < 0 THEN 0 - pageSize ELSE pageSize
      error == [status |-> 500, items |-> 0, totalDocs |-> 0, totalPages |-> 0,
                currentPage |-> 0, pageSize |-> 0]
  IN IF fail \/ skip < 0 THEN {error}
     ELSE {[status |-> 200,
            items |-> Max(0, Min(size, totalDocs - skip)),
            totalDocs |-> totalDocs,
            totalPages |-> CeilDiv(totalDocs, pageSize),
            currentPage |-> pageNum,
            pageSize |-> pageSize]}

(* ProductService.findAllWithFilters: its own defaults, then findAll *)
findAllWithFilters(page, limit, totalDocs, fail) ==
  findAll(DefaultParam(page, 0), DefaultParam(limit, 10), totalDocs, fail)

PageInputs ==
  {JsValue("number", n, <<>>) : n \in {-2, 0, 1, 2, 3}}
    \cup {JsValue("string", 0, <<2>>), JsValue("string", 0, <<17, 18>>), JsValue("object", 0, <<>>), JsValue("undefined", 0, <<>>)}

LimitInputs ==
  {JsValue("number", n, <<>>) : n \in {-1000, -5, -1, 0, 1, 10, 250, 251, 1000}}
    \cup {JsValue("string", 0, <<1, 0>>), JsValue("string", 0, <<-3, 3>>), JsValue("string", 0, <<1, 2, 64, 72>>),
           JsValue("string", 0, <<17, 18>>), JsValue("string", 0, <<-16, 7>>), JsValue("object", 0, <<>>), JsValue("undefined", 0, <<>>)}

CollectionSizes == {0, 3, 250, 251, 600}

InitFindAll ==
  /\ InitEmpty
  /\ req = [r \in Reqs |-> IdleReq]
  /\ ops = 0
  /\ eval \in {[f |-> "findAllWithFilters", pc |-> "call", page |-> pg, limit |-> lim,
                 totalDocs |-> t,
                 out |-> [status |-> 0, items |-> 0, totalDocs |-> 0, totalPages |-> 0,
                          currentPage |-> 0, pageSize |-> 0]] :
                pg \in PageInputs, lim \in LimitInputs, t \in CollectionSizes}

EvalFindAllWithFilters ==
  /\ eval.f = "findAllWithFilters" /\ eval.pc = "call"
  /\ \E fail \in BOOLEAN :
       \E res \in findAllWithFilters(eval.page, eval.limit, eval.totalDocs, fail) :
         eval' = [eval EXCEPT !.pc = "return", !.out = res]
  /\ EvalFrame

NextFindAll == EvalFindAllWithFilters

SpecFindAll == InitFindAll /\ [][NextFindAll]_vars

(* ============================== properties ============================= *)
IsEditor(actor) == actor.role \in {"editor", "EDITOR", "Editor"}

IsProvider(actor) == actor.role \in {"provider", "PROVIDER", "Provider"}

(* the call in slot r takes the step out of pc *)
Steps(r, pc) == req[r].pc = pc /\ req'[r] # req[r]

(* the call has not touched the store, the audit log, the bus or the index *)
Untouched(call) ==
  ~call.wrote /\ ~call.audited /\ ~call.auditFailed /\ ~call.published /\ ~call.indexed

StoresUnchanged == UNCHANGED <<products, productChanges, events, upserts>>

ChangesOf(id, operation) ==
  {i \in 1..Len(productChanges) :
     productChanges[i].productId = id /\ productChanges[i].operation = operation}

AllChangesOf(id) == {i \in 1..Len(productChanges) : productChanges[i].productId = id}

(* C1: the status of a stored product never moves from PUBLISHED back to   *)
(* PENDING_REVIEW, and only the write of an Approve changes the status of  *)
(* an existing product                                                     *)
C1_StatusOnlyByApprove ==
  [][\A id \in 1..Len(products) :
       /\ products[id].status = ProductStatus.PUBLISHED
            => products'[id].status = ProductStatus.PUBLISHED
       /\ products'[id].status # products[id].status
            => \E r \in Reqs : Steps(r, "a_write") /\ req[r].id = id]_vars

(* C2: of the Approve calls on one product at most one performs the        *)
(* transition, and at most one STATUS_CHANGE record exists for a product   *)
C2_SingleApproveWinner ==
  \A id \in 1..Len(products) :
    /\ Cardinality(ChangesOf(id, OperationType.STATUS_CHANGE)) <= 1
    /\ \A r1, r2 \in Reqs :
         (/\ req[r1].op = "approve" /\ req[r2].op = "approve"
          /\ req[r1].id = id /\ req[r2].id = id
          /\ req[r1].wrote /\ req[r2].wrote) => r1 = r2

(* C3: when no call is between its product write and its return, every     *)
(* product has as many ProductChange records as successful product writes  *)
C3_OneChangePerWrite ==
  (\A r \in Reqs : req[r].pc \in {"idle", "done", "c_save", "u_find", "u_reread",
                                  "u_write", "a_find", "a_write"})
    => \A id \in 1..Len(products) : Cardinality(AllChangesOf(id)) = writes[id]

(* C4: Create persists status PUBLISHED exactly for an EDITOR and          *)
(* PENDING_REVIEW for every other role, with createdBy the actor's userId; *)
(* the CREATE record has empty previousValues and the status of the        *)
(* persisted document as newValues.status                                  *)
C4_CreateByRole ==
  [][\A r \in Reqs :
       /\ (Steps(r, "c_save") /\ Len(products') # Len(products)) =>
            LET doc == products'[Len(products')] IN
            /\ Len(products') = Len(products) + 1
            /\ (doc.status = ProductStatus.PUBLISHED) <=> IsEditor(req[r].actor)
            /\ ~IsEditor(req[r].actor) => doc.status = ProductStatus.PENDING_REVIEW
            /\ doc.createdBy = req[r].actor.userId
       /\ (Steps(r, "c_audit") /\ productChanges' # productChanges) =>
            LET rec == productChanges'[Len(productChanges')] IN
            /\ productChanges' = Append(productChanges, rec)
            /\ rec.operation = OperationType.CREATE
            /\ rec.productId = req[r].id
            /\ rec.previousValues = <<>>
            /\ Get(rec.newValues, "status") = req[r].out.data[1].status
            /\ Get(rec.newValues, "status") = createStatus(req[r].actor)
            /\ Get(rec.newValues, "status") = products[req[r].id].status]_vars

(* a provider's create whose input carried status PUBLISHED is stored as   *)
(* PENDING_REVIEW and has its CREATE record                                *)
C4_Witness ==
  \E id \in 1..Len(products) :
    /\ products[id].gtin = "73513537"
    /\ products[id].createdBy = "u1"
    /\ products[id].status = ProductStatus.PENDING_REVIEW
    /\ ChangesOf(id, OperationType.CREATE) # {}

(* C5: a PROVIDER's Update of an active product is answered 403 when the   *)
(* actor is not the creator, else 400 when the product is not              *)
(* PENDING_REVIEW, else 400 when the payload has a status key; the call    *)
(* ends there, having written, audited, published and indexed nothing      *)
C5_ProviderUpdateRejected ==
  [][\A r \in Reqs :
       (/\ Steps(r, "u_find")
        /\ IsProvider(req[r].actor)
        /\ Active(products, req[r].id)
        /\ req'[r].result.status # 500) =>
         LET current == products[req[r].id]
             owner == current.createdBy = req[r].actor.userId
             pending == current.status = ProductStatus.PENDING_REVIEW
             statusKey == HasKey(req[r].updates, "status")
         IN /\ ~owner => req'[r].result.status = 403
            /\ (owner /\ ~pending) =>
                 req'[r].result = Err(400, "Only pending products can be updated by provider")
            /\ (owner /\ pending /\ statusKey) =>
                 req'[r].result = Err(400, "Status changes are not allowed in this operation")
            /\ (~owner \/ ~pending \/ statusKey) =>
                 /\ req'[r].pc = "done"
                 /\ Untouched(req'[r])
                 /\ StoresUnchanged
            /\ (owner /\ pending /\ ~statusKey) => req'[r].pc # "done"]_vars

(* the owner of a pending product sent name together with status *)
C5_Witness ==
  \E r \in Reqs :
    /\ req[r].pc = "done" /\ req[r].op = "update"
    /\ req[r].actor = Provider1
    /\ HasKey(req[r].updates, "name")
    /\ req[r].result = Err(400, "Status changes are not allowed in this operation")
    /\ Active(products, req[r].id)
    /\ products[req[r].id].name = "Choc Bar"

BusinessFields == {BUSINESS_FIELDS[i] : i \in 1..Len(BUSINESS_FIELDS)}

(* equality of a stored value and a payload value by content: a nested     *)
(* object has the same properties with the same values, in whatever order  *)
DeepEqual(k, a, b) == IF k = "manufacturer" THEN AsMap(a) = AsMap(b) ELSE a = b

(* the payload leaves every business field equal to its current value *)
LeavesEqual(doc, updates) ==
  \A k \in Keys(updates) \cap BusinessFields :
    k \in DOMAIN doc /\ DeepEqual(k, doc[k], Get(updates, k))

(* C6: an Update whose payload leaves every business field equal to its    *)
(* current value takes the no-op path: it re-reads the product and returns *)
(* it, and writes, audits, publishes and indexes nothing                   *)
C6_NoOpUpdate ==
  [][\A r \in Reqs :
       /\ (/\ Steps(r, "u_find")
           /\ Active(products, req[r].id)
           /\ req'[r].result.status \notin {500, 403, 400}
           /\ LeavesEqual(products[req[r].id], req[r].updates))
            => req'[r].pc = "u_reread" /\ StoresUnchanged
       /\ Steps(r, "u_reread") =>
            /\ req'[r].pc = "done"
            /\ Untouched(req'[r])
            /\ StoresUnchanged
            /\ req'[r].result.status \in {200, 404, 500}
            /\ req'[r].result.status = 200
                 => req'[r].result.data = <<products[req[r].id]>>]_vars

(* C7: Approve is answered 403 for an actor who is not EDITOR and 400 for  *)
(* an EDITOR when the product read is not PENDING_REVIEW; the call ends    *)
(* there, having written, audited, published and indexed nothing           *)
C7_ApproveRejected ==
  [][\A r \in Reqs :
       /\ (Steps(r, "idle") /\ req'[r].op = "approve") =>
            /\ StoresUnchanged
            /\ IF IsEditor(req'[r].actor)
               THEN req'[r].pc = "a_find"
               ELSE /\ req'[r].pc = "done"
                    /\ req'[r].result.status = 403
                    /\ Untouched(req'[r])
       /\ (/\ Steps(r, "a_find")
           /\ Active(products, req[r].id)
           /\ req'[r].result.status # 500) =>
            IF products[req[r].id].status # ProductStatus.PENDING_REVIEW
            THEN /\ req'[r].pc = "done"
                 /\ req'[r].result = Err(400, "Only pending products can be approved")
                 /\ Untouched(req'[r])
                 /\ StoresUnchanged
            ELSE req'[r].pc = "a_write"]_vars

(* a second Approve of an approved product was answered 400 *)
C7_Witness ==
  \E r \in Reqs :
    /\ req[r].pc = "done" /\ req[r].op = "approve"
    /\ req[r].result.status = 400
    /\ Active(products, req[r].id)
    /\ products[req[r].id].status = ProductStatus.PUBLISHED
    /\ ChangesOf(req[r].id, OperationType.STATUS_CHANGE) # {}

(* C8: an Approve that returns success has set the status to PUBLISHED,    *)
(* left every other field but updatedAt as it was, and appended the        *)
(* STATUS_CHANGE record {status: PENDING_REVIEW} -> {status: PUBLISHED}     *)
C8_ApproveTransition ==
  [][\A r \in Reqs :
       /\ (Steps(r, "a_write") /\ req'[r].wrote) =>
            LET id == req[r].id IN
            /\ products'[id].status = ProductStatus.PUBLISHED
            /\ DOMAIN products'[id] = DOMAIN products[id]
            /\ \A k \in DOMAIN products[id] \ {"status", "updatedAt"} :
                 products'[id][k] = products[id][k]
       /\ (Steps(r, "a_audit") /\ req'[r].result.status = 200) =>
            LET rec == productChanges'[Len(productChanges')] IN
            /\ productChanges' = Append(productChanges, rec)
            /\ rec.productId = req[r].id
            /\ rec.operation = OperationType.STATUS_CHANGE
            /\ rec.previousValues = << <<"status", ProductStatus.PENDING_REVIEW>> >>
            /\ rec.newValues = << <<"status", ProductStatus.PUBLISHED>> >>]_vars

(* C9: the audit insert, the publish and the upsert of a call come only    *)
(* after its product write has succeeded; a call whose product write fails *)
(* returns that error and leaves the store, the audit log, the bus and the *)
(* index as they were                                                      *)
C9_AuditAfterWrite ==
  /\ [](\A r \in Reqs :
          (\/ req[r].pc \in {"c_audit", "u_audit", "a_audit"}
           \/ req[r].audited \/ req[r].auditFailed
           \/ req[r].published \/ req[r].indexed) => req[r].wrote)
  /\ [][\A r \in Reqs :
          (/\ req[r].pc \in {"c_save", "u_write", "a_write"}
           /\ req'[r] # req[r]
           /\ ~req'[r].wrote) =>
            /\ req'[r].pc = "done"
            /\ req'[r].result \in {handleError("store"), handleError("duplicate"),
                                   handleError("validation"), handleDocumentNotFound}
            /\ Untouched(req'[r])
            /\ StoresUnchanged]_vars

(* an Update found its product deleted at write time and returned 404 *)
C9_Witness ==
  \E r \in Reqs :
    /\ req[r].pc = "done" /\ req[r].op = "update"
    /\ req[r].current # <<>>
    /\ req[r].previous # <<>>
    /\ req[r].result = handleDocumentNotFound
    /\ AllChangesOf(req[r].id) = ChangesOf(req[r].id, OperationType.CREATE)

(* C10: a call publishes and indexes only after both its product write and *)
(* its audit insert have succeeded                                         *)
C10_SideEffectsAfterAudit ==
  \A r \in Reqs :
    (req[r].published \/ req[r].indexed) => (req[r].wrote /\ req[r].audited)

(* the operation type a call records in the audit log *)
AuditOperation(call) ==
  CASE call.op = "create" -> OperationType.CREATE
    [] call.op = "update" -> OperationType.UPDATE
    [] OTHER -> OperationType.STATUS_CHANGE

C12_CreatedByImmutable ==
  [][\A id \in 1..Len(products) :
       products'[id].createdBy = products[id].createdBy]_vars

(* C13: when some business field of the payload differs from the current   *)
(* value, computeAuditDiff returns as previous the pre-update values of    *)
(* exactly the business fields present in updates, and as next the values  *)
(* of updates for the same fields                                          *)
C13_DiffOfUpdatedFields ==
  (/\ eval.f = "computeAuditDiff" /\ eval.pc = "return"
   /\ ~LeavesEqual(eval.current, eval.updates)) =>
    LET present == Keys(eval.updates) \cap BusinessFields IN
    /\ Keys(eval.out.previous) \subseteq present
    /\ \A k \in present \cap DOMAIN eval.current :
         HasKey(eval.out.previous, k) /\ Get(eval.out.previous, k) = eval.current[k]
    /\ Keys(eval.out.next) = present
    /\ \A k \in present : Get(eval.out.next, k) = Get(eval.updates, k)

(* C14: computeAuditDiff returns the empty sentinel exactly when every     *)
(* business field present in updates equals the current value by content   *)
(* (in particular for empty updates), whatever the order of the keys       *)
C14_SentinelIffEqual ==
  (eval.f = "computeAuditDiff" /\ eval.pc = "return") =>
    ((eval.out = [previous |-> <<>>, next |-> <<>>])
       <=> LeavesEqual(eval.current, eval.updates))

(* a read or a write of the call in slot r is answered by the store while  *)
(* no active product has the id of the call                                *)
AnsweredMissing(r, pcs) ==
  /\ req[r].pc \in pcs /\ req'[r] # req[r]
  /\ ~Active(products, req[r].id)
  /\ req'[r].result.status # 500

(* the call ends with 404 and the product store and the audit log are as   *)
(* they were                                                               *)
EndsNotFound(r) ==
  /\ req'[r].pc = "done"
  /\ req'[r].result = handleDocumentNotFound
  /\ ~req'[r].wrote /\ ~req'[r].audited /\ ~req'[r].published /\ ~req'[r].indexed
  /\ StoresUnchanged

(* C15 as stated: Update and Approve, by whatever actor, on an id with no   *)
(* active product end with 404 and change nothing, at the read and at the  *)
(* write                                                                   *)
C15_NotFoundAnyRole ==
  [][\A r \in Reqs :
       /\ AnsweredMissing(r, {"u_find", "a_find", "u_reread", "u_write", "a_write"})
            => EndsNotFound(r)
       /\ (/\ Steps(r, "idle") /\ req'[r].op = "approve"
           /\ ~Active(products, req'[r].id) /\ req'[r].pc = "done")
            => req'[r].result = handleDocumentNotFound]_vars

(* C15: Update, and Approve by an EDITOR, on an id with no active product  *)
(* end with 404 and change nothing, also when the product is soft-deleted  *)
(* between the read and the write; Approve by another role is answered    *)
(* 403 before the product is looked up                                     *)
C15_NotFound ==
  [][\A r \in Reqs :
       /\ AnsweredMissing(r, {"u_find", "a_find", "u_reread", "u_write", "a_write"})
            => EndsNotFound(r)
       /\ (Steps(r, "idle") /\ req'[r].op = "approve" /\ ~Active(products, req'[r].id)) =>
            /\ StoresUnchanged
            /\ IF IsEditor(req'[r].actor)
               THEN req'[r].pc = "a_find"
               ELSE req'[r].pc = "done" /\ req'[r].result.status = 403]_vars

(* an EDITOR's Approve read the product, the product was soft-deleted, and *)
(* the write was answered 404: the deleted product is still PENDING_REVIEW *)
(* and has no STATUS_CHANGE record                                         *)
C15_Witness ==
  \E r \in Reqs :
    /\ req[r].op = "approve" /\ req[r].pc = "done"
    /\ req[r].current # <<>>
    /\ req[r].result = handleDocumentNotFound
    /\ products[req[r].id].deletedAt # 0
    /\ products[req[r].id].status = ProductStatus.PENDING_REVIEW
    /\ ChangesOf(req[r].id, OperationType.STATUS_CHANGE) = {}

(* a stored product other than self holds the gtin *)
HeldByAnother(gtin, self) ==
  \E j \in 1..Len(products) : j # self /\ products[j].gtin = gtin

(* the write of the call in slot r is answered with the duplicate-key      *)
(* error, without a product, and the product store and the audit log are   *)
(* as they were                                                            *)
EndsDuplicate(r) ==
  /\ req'[r].pc = "done"
  /\ req'[r].result.status = 400
  /\ req'[r].result.error = "Duplicate Key Error"
  /\ req'[r].result.data = <<>>
  /\ products' = products
  /\ productChanges' = productChanges

(* C16: no two stored products have the same gtin; a Create, or an Update  *)
(* that changes gtin, whose gtin another product holds when the write      *)
(* reaches the store is answered with the 400 duplicate-key error, returns *)
(* no product and leaves the product store and the audit log unchanged     *)
C16_GtinUnique ==
  /\ [](\A i, j \in 1..Len(products) :
          i # j => products[i].gtin # products[j].gtin)
  /\ [][\A r \in Reqs :
          /\ (/\ Steps(r, "c_save")
              /\ HeldByAnother(Get(req[r].updates, "gtin"), 0)
              /\ req'[r].result.status # 500) => EndsDuplicate(r)
          /\ (/\ Steps(r, "u_write")
              /\ HasKey(req[r].updates, "gtin")
              /\ HeldByAnother(Get(req[r].updates, "gtin"), req[r].id)
              /\ Active(products, req[r].id)
              /\ req'[r].result.status # 500) => EndsDuplicate(r)]_vars

(* an Update that changes gtin found the gtin held by another product at   *)
(* its write and was answered with the duplicate-key error                 *)
C16_Witness ==
  \E r \in Reqs :
    /\ req[r].op = "update" /\ req[r].pc = "done"
    /\ req[r].result.error = "Duplicate Key Error"
    /\ req[r].current # <<>>
    /\ Len(products) = 2
    /\ products[req[r].id].gtin # Get(req[r].updates, "gtin")
    /\ HeldByAnother(Get(req[r].updates, "gtin"), req[r].id)

(* the indices of the records of a product, oldest first *)
RECURSIVE IndicesOf(_, _)
IndicesOf(id, i) ==
  IF i > Len(productChanges) THEN <<>>
  ELSE (IF productChanges[i].productId = id THEN <<i>> ELSE <<>>) \o IndicesOf(id, i + 1)

(* eval holds an answer of findByProduct taken from the log as it is now *)
ListingCurrent ==
  /\ eval.f = "findByProduct" /\ eval.out.status = 200
  /\ eval.seen = Len(productChanges)

(* C17: findByProduct returns exactly the records of the product, the most *)
(* recent first (changedAt descending, the reverse of the order in which   *)
(* they were appended), and a second call with no write in between returns *)
(* the same sequence                                                       *)
C17_ListChangesNewestFirst ==
  /\ [](ListingCurrent =>
          LET idx == IndicesOf(eval.productId, 1)
              n == Len(idx)
              data == eval.out.data
          IN /\ Len(data) = n
             /\ \A k \in 1..n : data[k] = productChanges[idx[n + 1 - k]]
             /\ \A k \in 1..n : data[k].productId = eval.productId
             /\ \A a, b \in 1..n : a < b => data[a].changedAt > data[b].changedAt)
  /\ [][(/\ ListingCurrent
          /\ eval'.f = "findByProduct" /\ eval'.out.status = 200
          /\ eval'.productId = eval.productId
          /\ eval'.seen = eval.seen) => eval'.out = eval.out]_vars

(* after the Create, an Update and an Approve of product 1 the listing is  *)
(* STATUS_CHANGE, UPDATE, CREATE                                           *)
C17_Witness ==
  /\ ListingCurrent
  /\ eval.productId = 1
  /\ [k \in 1..Len(eval.out.data) |-> eval.out.data[k].operation]
       = <<OperationType.STATUS_CHANGE, OperationType.UPDATE, OperationType.CREATE>>

(* C18: the audit log is append-only: every step leaves each record that   *)
(* exists as it is, at its place, so a record keeps its productId,         *)
(* changedBy, operation, previousValues and newValues and the number of    *)
(* records of a product never decreases                                    *)
C18_AuditAppendOnly ==
  [][/\ Len(productChanges') >= Len(productChanges)
     /\ Len(productChanges') <= Len(productChanges) + 1
     /\ \A i \in 1..Len(productChanges) : productChanges'[i] = productChanges[i]
     /\ \A id \in 1..Len(products) :
          Cardinality({i \in 1..Len(productChanges') : productChanges'[i].productId = id})
            >= Cardinality(AllChangesOf(id))]_vars

(* product 1 was renamed after its Create: the CREATE record still shows   *)
(* the name it was created with, and an UPDATE record follows it           *)
C18_Witness ==
  /\ Len(productChanges) >= 2
  /\ productChanges[1].operation = OperationType.CREATE
  /\ productChanges[1].productId = 1
  /\ Get(productChanges[1].newValues, "name") = "Choc Bar"
  /\ products[1].name = "Nut Bar"
  /\ ChangesOf(1, OperationType.UPDATE) # {}

(* C19: for every numeric base of length 7, 11, 12 or 13, the check digit  *)
(* computed for it is (10 - (sum mod 10)) mod 10, the sum weighting        *)
(* position p (1-based from the left) by 3 when p has the parity of the    *)
(* base length and by 1 otherwise, and the base followed by that digit is  *)
(* a valid GTIN.                                                           *)
RECURSIVE WeightedSum(_, _)
WeightedSum(base, p) ==
  IF p = 0 THEN 0
  ELSE (IF p % 2 = Len(base) % 2 THEN 3 ELSE 1) * base[p] + WeightedSum(base, p - 1)

C19_CheckDigitRoundTrip ==
  /\ (eval.f = "gtin" /\ eval.pc # "call") =>
       /\ Len(eval.base) \in {7, 11, 12, 13}
       /\ eval.cd = (10 - (WeightedSum(eval.base, Len(eval.base)) % 10)) % 10
  /\ (eval.f = "gtin" /\ eval.pc \in {"valid", "return"}) =>
       /\ eval.gtin = eval.base \o <<eval.cd>>
       /\ eval.valid

(* the base of 4006381333931 gets the check digit 1 and validates *)
C19_Witness ==
  /\ eval.f = "gtin" /\ eval.pc = "valid"
  /\ eval.base = <<4, 0, 0, 6, 3, 8, 1, 3, 3, 3, 9, 3>>
  /\ eval.cd = 1
  /\ eval.valid

(* C20: replacing the digit at any one position of a valid GTIN of length  *)
(* 8, 12, 13 or 14, the check digit included, by a different digit gives a *)
(* string that isValidGTIN rejects.                                        *)
C20_SingleDigitErrorDetected ==
  (eval.f = "gtin" /\ eval.pc = "return" /\ eval.valid) =>
    /\ Len(eval.gtin) \in {8, 12, 13, 14}
    /\ Len(eval.mutated) = Len(eval.gtin)
    /\ Cardinality({q \in 1..Len(eval.gtin) : eval.mutated[q] # eval.gtin[q]}) = 1
    /\ ~eval.mutatedValid

(* 4006381333931 with its third digit replaced by 5 is rejected *)
C20_Witness ==
  /\ eval.f = "gtin" /\ eval.pc = "return" /\ eval.valid
  /\ eval.gtin = <<4, 0, 0, 6, 3, 8, 1, 3, 3, 3, 9, 3, 1>>
  /\ eval.mutated = <<4, 0, 5, 6, 3, 8, 1, 3, 3, 3, 9, 3, 1>>
  /\ ~eval.mutatedValid

(* C21: normalizeGTIN14 returns, for every all-digit string of length 8,   *)
(* 12, 13 or 14, that string left-padded with '0' to length exactly 14, and *)
(* throws for every other input: digit strings of any other length, strings *)
(* holding a non-digit, and non-string values.                             *)
C21_NormalizeTo14 ==
  (eval.f = "normalizeGTIN14" /\ eval.pc = "return") =>
    LET v == eval.gtin
        n == Len(v.chars)
        wellFormed == /\ v.type = "string"
                      /\ n \in {8, 12, 13, 14}
                      /\ \A i \in 1..n : v.chars[i] \in 0..9
    IN IF wellFormed
       THEN /\ ~eval.out.threw
            /\ Len(eval.out.value) = 14
            /\ \A i \in 1..(14 - n) : eval.out.value[i] = 0
            /\ \A i \in 1..n : eval.out.value[14 - n + i] = v.chars[i]
       ELSE eval.out.threw

(* a GTIN-8 is padded with six zeros *)
C21_Witness ==
  /\ eval.f = "normalizeGTIN14" /\ eval.pc = "return"
  /\ eval.gtin.chars = <<0, 7, 4, 1, 8, 5, 2, 9>>
  /\ ~eval.out.threw
  /\ eval.out.value = <<0, 0, 0, 0, 0, 0, 0, 7, 4, 1, 8, 5, 2, 9>>

(* C22: for every page and limit handed to the product list operation, 0,  *)
(* negative numbers and non-numeric values included, an answered listing   *)
(* used a page size between 1 and 250 and a page index of at least 0, and  *)
(* returned at most 250 items.                                             *)
C22_PageSizeBounded ==
  (eval.f = "findAllWithFilters" /\ eval.pc = "return" /\ eval.out.status = 200) =>
    /\ eval.out.pageSize \in 1..250
    /\ eval.out.currentPage >= 0
    /\ eval.out.items <= 250

(* C23: a successful Update modifies only the fields present in the        *)
(* updates payload, plus updatedAt: every other stored field of the        *)
(* product, status and createdBy included, has the same value after the    *)
(* write as before it, and no other product is touched.                    *)
C23_UpdateFrame ==
  [][\A r \in Reqs :
       (Steps(r, "u_write") /\ req'[r].wrote) =>
         LET id == req[r].id
             written == Keys(req[r].updates) \cup {"updatedAt"}
         IN /\ Len(products') = Len(products)
            /\ DOMAIN products'[id] \subseteq DOMAIN products[id] \cup written
            /\ \A k \in DOMAIN products[id] \ written :
                 k \in DOMAIN products'[id] /\ products'[id][k] = products[id][k]
            /\ \A other \in 1..Len(products) :
                 other # id => products'[other] = products[other]]_vars

(* an EDITOR's rename of a published product has been written: the status  *)
(* and the owner are the ones it had                                       *)
C23_Witness ==
  \E r \in Reqs :
    /\ req[r].op = "update" /\ req[r].pc = "u_audit" /\ req[r].wrote
    /\ Keys(req[r].updates) = {"name"}
    /\ req[r].current[1].name # products[req[r].id].name
    /\ products[req[r].id].status = ProductStatus.PUBLISHED
    /\ products[req[r].id].createdBy = req[r].current[1].createdBy

(* C24: a refresh token is accepted at most once: among the calls that     *)
(* present the same refresh token, one after the other or overlapping, at  *)
(* most one returns status 200 with a new pair.                            *)
C24_AcceptedAtMostOnce ==
  \A a, b \in AuthCalls :
    (/\ auth[a].pc = "done" /\ auth[b].pc = "done"
     /\ auth[a].token = auth[b].token
     /\ auth[a].status = 200 /\ auth[b].status = 200) => a = b

(* C25: refreshToken rotates atomically: no call ends having revoked the   *)
(* presented token without having issued a new refresh token.              *)
C25_RotationAtomic ==
  \A a \in AuthCalls :
    (auth[a].pc = "done" /\ auth[a].revoked) =>
      /\ auth[a].status = 200
      /\ \E i \in 1..Len(refreshTokens) :
           refreshTokens[i].jti = auth[a].issued /\ refreshTokens[i].revokedAt = 0

(* C26: a PROVIDER's Update never changes a business field of a product    *)
(* whose status is PUBLISHED at the moment its write is applied, also when *)
(* an EDITOR's Approve completes between the Update's read and its write.  *)
C26_ProviderNeverEditsPublished ==
  [][\A r \in Reqs :
       (/\ Steps(r, "u_write")
        /\ IsProvider(req[r].actor)
        /\ Active(products, req[r].id)
        /\ products[req[r].id].status = ProductStatus.PUBLISHED) =>
         \A k \in BusinessFields \cap DOMAIN products[req[r].id] :
           products'[req[r].id][k] = products[req[r].id][k]]_vars

(* C27: Update applies the ownership, pending-status and no-status-key     *)
(* restrictions exactly when the actor's role is PROVIDER in whatever      *)
(* casing; for every other role (ADMIN, MANAGER, EMPLOYEE, an unknown      *)
(* string, no role) it goes on to the write as for an EDITOR, whoever owns *)
(* the product and whatever its status and the payload's keys.             *)
C27_RestrictionsIffProvider ==
  [][\A r \in Reqs :
       (/\ Steps(r, "u_find")
        /\ Active(products, req[r].id)
        /\ ~(req'[r].pc = "done" /\ req'[r].result.status >= 500)) =>
         LET actor == req[r].actor
             current == products[req[r].id]
             refused(status) == req'[r].pc = "done" /\ req'[r].result.status = status
             goesOn == req'[r].pc \in {"u_write", "u_reread"}
         IN IF IsProvider(actor)
            THEN /\ current.createdBy # actor.userId => refused(403)
                 /\ (/\ current.createdBy = actor.userId
                      /\ (\/ current.status # ProductStatus.PENDING_REVIEW
                           \/ HasKey(req[r].updates, "status"))) => refused(400)
                 /\ (/\ current.createdBy = actor.userId
                      /\ current.status = ProductStatus.PENDING_REVIEW
                      /\ ~HasKey(req[r].updates, "status")) => goesOn
            ELSE goesOn]_vars

(* an ADMIN has written an update that carries status to a published       *)
(* product of another user                                                 *)
C27_Witness ==
  \E r \in Reqs :
    /\ req[r].op = "update" /\ req[r].pc = "u_audit" /\ req[r].wrote
    /\ req[r].actor.role = "ADMIN"
    /\ HasKey(req[r].updates, "status")
    /\ req[r].current[1].status = ProductStatus.PUBLISHED
    /\ req[r].current[1].createdBy # req[r].actor.userId
    /\ products[req[r].id].name = "Nut Bar"

(* no call is between its first and its last step *)
Quiescent == \A r \in Reqs : req[r].pc \in {"idle", "done"}

(* every successful write to the product has its audit record *)
AllAudited(id) == Cardinality(AllChangesOf(id)) = writes[id]

(* the ProductChange of the product appended last *)
LastChange(id) ==
  productChanges[CHOOSE i \in AllChangesOf(id) : \A j \in AllChangesOf(id) : j <= i]

(* C28: when every audit write has succeeded and no call is in flight, the *)
(* newValues of the ProductChange appended last for a product agree with   *)
(* the stored product on every field the record contains, also after two   *)
(* Updates, or an Update and an Approve, of the product have overlapped.   *)
C28_LastAuditMatchesStore ==
  \A id \in 1..Len(products) :
    (Quiescent /\ AllAudited(id) /\ AllChangesOf(id) # {}) =>
      LET newValues == LastChange(id).newValues IN
      \A k \in Keys(newValues) \cap DOMAIN products[id] :
        products[id][k] = Get(newValues, k)

(* every upsert that was started has completed, none of them failed *)
UpsertsSettled ==
  \A r \in Reqs : req[r].delivery # "pending" /\ req[r].indexing # "failed"

(* every successful write to the product was followed by its upsert *)
AllUpserted(id) ==
  Cardinality({i \in 1..Len(upserts) : upserts[i][1]._id = id}) = writes[id]

(* C29: when every search upsert succeeds, once the Create, Update and     *)
(* Approve calls on a product and their detached upserts have completed,   *)
(* the search-index document of the product has the business fields and    *)
(* the status of the stored product, also when calls on the product        *)
(* overlap and their upserts complete in another order than their writes.  *)
C29_IndexMatchesStore ==
  \A id \in 1..Len(products) :
    (Quiescent /\ UpsertsSettled /\ AllUpserted(id)) =>
      \E e \in index :
        /\ e.id = id
        /\ \A k \in (BusinessFields \cup {"status"}) \cap DOMAIN products[id] :
             k \in DOMAIN e.document /\ e.document[k] = products[id][k]

(* C30: waitForRabbitMQ makes a fresh connection attempt on each retry:    *)
(* when the broker is unreachable during the first k attempts, k smaller   *)
(* than retries, and reachable from attempt k+1 on, waitForRabbitMQ        *)
(* returns true and a later publish returns true.                          *)
C30_RetryReconnects ==
  (boot.pc \in {"ended", "p_connect", "p_await", "done"} /\ boot.down < boot.retries) =>
    /\ boot.ready = "true"
    /\ boot.pc = "done" => boot.published = "true"

====
